---- MODULE Spec2Model ----
(***************************************************************************)
(* A model of the DHT22 driver (components/dht22/dht22.c) and of its       *)
(* producer/consumer program (main/user_main.c).                           *)
(*                                                                         *)
(*   SpecDecode : dhtProcessRawData applied to encoded 40-slot frames      *)
(*   SpecLife   : dhtInitialize and dhtCleanup on a small heap             *)
(*   SpecRead   : one dhtRead call, sample by sample, on a sound or a      *)
(*                faulty sensor                                            *)
(*   SpecGate   : successive dhtRead calls on one handle, the tick counter *)
(*                near and far from its wrap-around                        *)
(*   SpecPipe   : app_main, ReadSensorTask and WriteSensorTask around the  *)
(*                queue, every interleaving                                *)
(*   SpecPipeLive : the same with every task scheduled fairly              *)
(***************************************************************************)
EXTENDS Integers, Naturals, Sequences, FiniteSets, TLC

VARIABLES
    \* ---- frame decoder (dhtProcessRawData) ----
    inp,        \* the fields the frame was encoded from: [h, sign, mag, cs]
    b,          \* uint8_t b[40]: the raw frame, index 0..39
    outdata,    \* the caller's dht_data_t
    outdata0,   \* the caller's dht_data_t as it was before the call
    result,     \* the dht_result_t returned ("NONE" before the call returns)
    flipped,    \* index of the slot flipped across the threshold, or -1
    \* ---- handle lifecycle (dhtInitialize, dhtCleanup) ----
    allocated,  \* the heap addresses malloc has handed out and free has not taken back
    mem,        \* what each address holds: a dht_t, a dhtpvt_t, or nothing yet
    refs,       \* the caller's dht_t* variables (0 is NULL)
    ub,         \* "none", or the undefined behaviour the program has run into
    last,       \* the last call: which function, the code returned, whether *ppDht
                \* was the caller's struct copy, whether *ppDht is NULL afterwards,
                \* whether the call had to be refused, whether it changed anything
    \* ---- dhtRead: rate limiter and protocol engine ----
    ticks,      \* xTaskGetTickCount(), a uint32_t
    hnd,        \* the dht_t the reads are made on
    sensor,     \* the sensor on the line: [faulty, style]
    rpc,        \* where dhtRead is: "idle", "wake", "ackLow", "ackHigh", "bitLow", "bitHigh"
    bitx,       \* the bit loop's index x
    counter,    \* the wait loops' counter
    prevState,  \* the last level sampled
    gpioFail,   \* the gpio call that fails in this read, or "none"
    reads,      \* how many dhtRead calls may still be made
    delayed,    \* the caller has slept since the last call
    since,      \* ticks elapsed (capped) since creation, the last attempt, the last gate pass
    call,       \* the last dhtRead call: its arguments and the elapsed times at the call
    hist,       \* what the line did in the current phase, and what the read has done
    \* ---- the program (user_main.c): app_main, ReadSensorTask, WriteSensorTask ----
    gQUIT,      \* static bool gQUIT
    qState,     \* gQueueHandle: "unset", "live" or "deleted"
    queue,      \* the entries in the queue, oldest first
    mainPc,     \* where app_main is
    prodPc,     \* where ReadSensorTask is ("absent" before it is created)
    consPc,     \* where WriteSensorTask is ("absent" before it is created)
    dhtQEntry,  \* ReadSensorTask's dhtQEntry, with the attempt that filled it
    attempts,   \* the number of dhtRead calls ReadSensorTask has made
    sentLog,    \* the attempts whose entry went into the queue, in order
    recvLog,    \* the attempts whose entry WriteSensorTask took out, in order
    plog        \* what the tasks did last: the entry received and whether it was
                \* reported, entries dropped, receive calls, what set gQUIT

decVars == <<inp, b, outdata, outdata0, result, flipped>>
lifeVars == <<allocated, mem, refs, ub, last>>
readVars == <<ticks, hnd, sensor, rpc, bitx, counter, prevState, gpioFail, reads,
              delayed, since, call, hist>>
pipeVars == <<gQUIT, qState, queue, mainPc, prodPc, consPc, dhtQEntry, attempts,
              sentLog, recvLog, plog>>
vars == <<decVars, lifeVars, readVars, pipeVars>>

(***************************************************************************)
(* Fixed-width arithmetic.  A uint32_t is kept as two 16-bit limbs         *)
(* <<high, low>>, so that every product, quotient and negation is taken    *)
(* modulo 2^32 as the C code takes it.                                     *)
(***************************************************************************)
W16 == 65536

\* the uint32_t holding n, for 0 <= n < 2^31
U32Of(n) == <<n \div W16, n % W16>>
\* a * k, k a small constant
MulU32(a, k) ==
    LET lo == a[2] * k
    IN  <<(a[1] * k + lo \div W16) % W16, lo % W16>>
\* a / d and a % d (unsigned), d a small constant
DivU32(a, d) == <<a[1] \div d, ((a[1] % d) * W16 + a[2]) \div d>>
ModU32(a, d) == ((a[1] % d) * W16 + a[2]) % d
\* a * -1 as a uint32_t
NegU32(a) ==
    IF a[2] = 0 THEN <<(W16 - a[1]) % W16, 0>>
    ELSE <<W16 - 1 - a[1], W16 - a[2]>>
HighByte(a) == a[2] \div 256           \* (a & 0x0000ff00) >> 8
LowByte(a) == a[2] % 256               \* a & 0x000000ff
ToU16(a) == a[2]                       \* store into a uint16_t field
\* a uint16_t field read as a signed 16-bit value
AsS16(v) == IF v >= 32768 THEN v - W16 ELSE v

\* C's signed division and remainder (truncation toward zero)
TruncDiv(a, d) == IF a >= 0 THEN a \div d ELSE -((-a) \div d)
TruncRem(a, d) == a - d * TruncDiv(a, d)

(***************************************************************************)
(* dhtProcessRawData (dht22.c:317-381).                                    *)
(***************************************************************************)
DHT_BIT_THRESHOLD == 19

\* b[x] > 19 ? (uint8_t)0x1 : (uint8_t)0x0
BitOf(d) == IF d > DHT_BIT_THRESHOLD THEN 1 ELSE 0

\* acc |= bit
OrBit(acc, bit) ==
    IF bit = 1 /\ acc[2] % 2 = 0 THEN <<acc[1], acc[2] + 1>> ELSE acc

\* for (x = hi; x > lo-1; x--) { acc |= bit(b[x]); acc <<= x > lo ? 1 : 0; }
RECURSIVE Assemble(_, _, _, _)
Assemble(buf, x, lo, acc) ==
    IF x < lo THEN acc
    ELSE LET a1 == OrBit(acc, BitOf(buf[x]))
             a2 == IF x > lo THEN MulU32(a1, 2) ELSE a1
         IN  Assemble(buf, x - 1, lo, a2)

\* lines 326-331
DecodeRh(buf) == Assemble(buf, 39, 24, U32Of(0))
\* line 335
IsNegative(buf) == BitOf(buf[23]) = 1
\* lines 336-344: the 15-bit magnitude, negated as a uint32_t when the sign is set
DecodeTemp(buf) ==
    LET m == Assemble(buf, 22, 8, U32Of(0))
    IN  IF IsNegative(buf) THEN NegU32(m) ELSE m
\* lines 347-351
DecodeChecksum(buf) == Assemble(buf, 7, 0, U32Of(0))
\* lines 356-357
CalculatedChecksum(rh, temp) ==
    (HighByte(rh) + LowByte(rh) + HighByte(temp) + LowByte(temp)) % 256

\* lines 370-378: the six fields, uint32_t arithmetic stored into uint16_t
ConvertMutant(rh, temp) ==
    LET t3 == MulU32(DivU32(MulU32(temp, 9), 5), 10)
    IN  [ csTempWhole    |-> ToU16(DivU32(temp, 10)),
          csTempFraction |-> ModU32(temp, 10),
          rhWhole        |-> ToU16(DivU32(rh, 10)),
          rhFraction     |-> ModU32(rh, 10),
          faTempWhole    |-> (ToU16(DivU32(t3, 100)) + 32) % W16,
          faTempFraction |-> ModU32(t3, 100) ]
Convert(rh, temp) ==
    LET t1 == MulU32(temp, 100)
        t2 == DivU32(t1, 50)
        t3 == MulU32(t2, 9)
    IN  [ csTempWhole    |-> ToU16(DivU32(temp, 10)),
          csTempFraction |-> ModU32(MulU32(temp, 10), 100),
          rhWhole        |-> ToU16(DivU32(rh, 10)),
          rhFraction     |-> ModU32(rh, 10),
          faTempWhole    |-> (ToU16(DivU32(t3, 100)) + 32) % W16,
          faTempFraction |-> ModU32(t3, 100) ]

\* the whole function: the code returned and the caller's struct afterwards
dhtProcessRawDataMutant(buf, out) ==
    LET rh == DecodeRh(buf)
        temp == DecodeTemp(buf)
        checksum == DecodeChecksum(buf)
    IN  [result |-> IF ToU16(checksum) # CalculatedChecksum(rh, temp)
                    THEN "DHT_INVALID_CHECKSUM" ELSE "DHT_OK",
         outdata |-> Convert(rh, temp)]
dhtProcessRawData(buf, out) ==
    LET rh == DecodeRh(buf)
        temp == DecodeTemp(buf)
        checksum == DecodeChecksum(buf)
    IN  IF ToU16(checksum) # CalculatedChecksum(rh, temp)
        THEN [result |-> "DHT_INVALID_CHECKSUM", outdata |-> out]
        ELSE [result |-> "DHT_OK", outdata |-> Convert(rh, temp)]

(***************************************************************************)
(* Frames: the sensor's encoding of (humidity, sign, magnitude, checksum)  *)
(* as 40 pulse durations, first bit at index 39.                           *)
(***************************************************************************)
MaxSmall == 6

HumVals == (0 .. MaxSmall) \cup {255, 256, 653, 1000, 32768, 65535}
MagVals == (0 .. MaxSmall) \cup {231, 255, 256, 401, 4095, 32767}
\* durations standing for a 0 and for a 1
DurStyles == { <<0, 255>>, <<19, 20>>, <<9, 26>> }

\* the 16-bit temperature field as transmitted: sign bit, then the magnitude
TempField(sign, mag) == sign * 32768 + mag
\* the checksum a sensor transmits: the four data bytes as sent, mod 256
TxChecksum(h, sign, mag) ==
    ((h \div 256) + (h % 256) + (TempField(sign, mag) \div 256)
       + (TempField(sign, mag) % 256)) % 256

\* bit k (0 = least significant) of v
BitAt(v, k) == (v \div (2 ^ k)) % 2
\* the 40 bits, index 39 first: humidity, temperature field, checksum
FrameBit(i, x) ==
    IF x >= 24 THEN BitAt(i.h, x - 24)
    ELSE IF x >= 8 THEN BitAt(TempField(i.sign, i.mag), x - 8)
    ELSE BitAt(i.cs, x)
EncodeFrame(i, style) ==
    [x \in 0 .. 39 |-> IF FrameBit(i, x) = 1 THEN style[2] ELSE style[1]]

\* the checksums tried for (h, sign, mag): the one a sensor transmits, the
\* one the decoder computes, and a wrong one
ChecksumVals(h, sign, mag) ==
    { TxChecksum(h, sign, mag),
      CalculatedChecksum(U32Of(h),
                         IF sign = 1 THEN NegU32(U32Of(mag)) ELSE U32Of(mag)),
      (TxChecksum(h, sign, mag) + 1) % 256 }

\* what the caller's struct may hold before a call
StaleData ==
    [ csTempWhole |-> 7, csTempFraction |-> 7, rhWhole |-> 7,
      rhFraction |-> 7, faTempWhole |-> 7, faTempFraction |-> 7 ]

(***************************************************************************)
(* The heap and the caller's references.                                   *)
(***************************************************************************)
MaxHeap == 3
MaxRefs == 2

NULL == 0
HeapAddrs == 1 .. MaxHeap
\* a dht_t the caller keeps in storage of its own (a struct copy)
StackAddr == MaxHeap + 1
Addrs == HeapAddrs \cup {StackAddr}
RefIds == 1 .. MaxRefs

Nothing == [t |-> "none"]
\* dhtpvt_t (dht22.c:32-36) after line 104
NewPvt(pDht) == [t |-> "pvt", pDhtAddress |-> pDht]
\* dht_t (dht22.h:30-35) after lines 105-107; name is never written
NewDht(pinId, pDhtpvt) == [t |-> "dht", pin |-> pinId, pc |-> 0, opaque |-> pDhtpvt]

LiveOf(alloc, m, kind) == {a \in alloc : m[a].t = kind}
LiveHandles == LiveOf(allocated, mem, "dht")
LiveTokens == LiveOf(allocated, mem, "pvt")

\* the record of a step that is not a call of the driver
NoCall(op) ==
    [op |-> op, ret |-> "NONE", viaCopy |-> FALSE, refNull |-> FALSE,
     refused |-> FALSE, changed |-> FALSE]
\* the call left the heap, some block's contents or some caller variable changed
Changed(st, r) ==
    r.allocated # st.allocated \/ r.mem # st.mem \/ r.refs # st.refs

LifeIdle ==
    /\ allocated = {}
    /\ mem = [a \in Addrs |-> Nothing]
    /\ refs = [r \in RefIds |-> NULL]
    /\ ub = "none"
    /\ last = NoCall("none")

\* the program before app_main runs (user_main.c:34-35, 42, 70-71)
NoEntry == [result |-> "NONE", dhtData |-> StaleData, n |-> 0, wrote |-> "none"]
NoLog == [lastRecv |-> NoEntry, reported |-> FALSE, drops |-> 0, waits |-> 0,
          quitBy |-> {}, initRet |-> "NONE", tasks |-> {}]
PipeIdle ==
    /\ gQUIT = FALSE
    /\ qState = "unset"
    /\ queue = <<>>
    /\ mainPc = "start"
    /\ prodPc = "absent"
    /\ consPc = "absent"
    /\ dhtQEntry = NoEntry
    /\ attempts = 0
    /\ sentLog = <<>>
    /\ recvLog = <<>>
    /\ plog = NoLog

(***************************************************************************)
(* dhtInitialize (dht22.c:49-110).                                         *)
(***************************************************************************)
DHT_MAX_SENSOR_NAME == 32

\* GPIO_IS_VALID_GPIO(pinId): the ESP8266 has GPIO 0..16
ValidPins == 0 .. 16
GPIO_IS_VALID_GPIO(pinId) == pinId \in ValidPins
Pins == {5, 17}

\* a name is given by its length: -1 is NULL, 0 is "", n >= 32 has no
\* terminator among its first 32 characters (lines 61-73 then clip it in
\* the caller's buffer; the handle keeps no copy of the name)
NameLens == {-1, 0, DHT_MAX_SENSOR_NAME + 6}
\* The heap state st = [allocated, mem, refs] after the call, with the code
\* returned.  pvtA and dhtA are what the two mallocs return, pullOk whether
\* gpio_set_pull_mode returns ESP_OK.
InitResult(ret, st) ==
    [ret |-> ret, allocated |-> st.allocated, mem |-> st.mem, refs |-> st.refs]
\* free(p): the block goes back to the allocator, its contents are lost

dhtInitializeMutant(st, pinId, name, ppDht, pvtA, dhtA, pullOk) ==
    IF ~GPIO_IS_VALID_GPIO(pinId) THEN InitResult("DHT_INVALID_INPUT", st)
    ELSE IF name = -1 \/ name = 0 THEN InitResult("DHT_INVALID_INPUT", st)
    ELSE IF ppDht = NULL THEN InitResult("DHT_INVALID_INPUT", st)
    ELSE IF pvtA = NULL THEN InitResult("DHT_MALLOC_FAILED", st)
    ELSE IF dhtA = NULL
         THEN InitResult("DHT_MALLOC_FAILED",
                         [st EXCEPT !.allocated = @ \cup {pvtA},
                                    !.mem[pvtA] = Nothing])
    ELSE IF ~pullOk THEN InitResult("DHT_FAILED_TO_SET_PIN_MODE", st)
    ELSE InitResult("DHT_OK",
            [st EXCEPT !.allocated = @ \cup {pvtA, dhtA},
                       !.mem[pvtA] = NewPvt(dhtA),
                       !.mem[dhtA] = NewDht(pinId, pvtA),
                       !.refs[ppDht] = dhtA])
dhtInitialize(st, pinId, name, ppDht, pvtA, dhtA, pullOk) ==
    IF ~GPIO_IS_VALID_GPIO(pinId) THEN InitResult("DHT_INVALID_INPUT", st)
    ELSE IF name = -1 \/ name = 0 THEN InitResult("DHT_INVALID_INPUT", st)
    ELSE IF ppDht = NULL THEN InitResult("DHT_INVALID_INPUT", st)
    \* line 80-84: the first malloc fails
    ELSE IF pvtA = NULL THEN InitResult("DHT_MALLOC_FAILED", st)
    \* lines 86-91: the second malloc fails, the first block is freed
    ELSE IF dhtA = NULL THEN InitResult("DHT_MALLOC_FAILED", st)
    \* lines 93-98: both blocks are freed
    ELSE IF ~pullOk THEN InitResult("DHT_FAILED_TO_SET_PIN_MODE", st)
    \* lines 104-109
    ELSE InitResult("DHT_OK",
            [st EXCEPT !.allocated = @ \cup {pvtA, dhtA},
                       !.mem[pvtA] = NewPvt(dhtA),
                       !.mem[dhtA] = NewDht(pinId, pvtA),
                       !.refs[ppDht] = dhtA])

HeapState == [allocated |-> allocated, mem |-> mem, refs |-> refs]

\* the arguments pass lines 51-78, so that malloc is called
InitArgsValid(pinId, name, ppDht) ==
    GPIO_IS_VALID_GPIO(pinId) /\ name > 0 /\ ppDht # NULL

\* What the environment answers during one call: the two malloc results and
\* whether gpio_set_pull_mode succeeds.  A question the call never gets to
\* ask (arguments refused, an earlier malloc failed) has the one answer NULL
\* or FALSE.
EnvChoices(alloc, pinId, name, ppDht) ==
    IF ~InitArgsValid(pinId, name, ppDht) THEN {<<NULL, NULL, FALSE>>}
    ELSE {<<NULL, NULL, FALSE>>}
         \cup {<<pvtA, NULL, FALSE>> : pvtA \in HeapAddrs \ alloc}
         \cup {<<e[1], e[2], pullOk>> :
                 e \in {x \in (HeapAddrs \ alloc) \X (HeapAddrs \ alloc) : x[1] # x[2]},
                 pullOk \in BOOLEAN}

Initialize ==
    /\ ub = "none"
    /\ \E pinId \in Pins, name \in NameLens, ppDht \in {NULL} \cup RefIds :
       \E env \in EnvChoices(allocated, pinId, name, ppDht) :
          LET r == dhtInitialize(HeapState, pinId, name, ppDht, env[1], env[2], env[3])
          IN  /\ allocated' = r.allocated
              /\ mem' = r.mem
              /\ refs' = r.refs
              /\ last' = [op |-> "dhtInitialize", ret |-> r.ret,
                          viaCopy |-> FALSE, refNull |-> FALSE,
                          refused |-> FALSE, changed |-> Changed(HeapState, r)]
    /\ UNCHANGED <<ub, decVars, readVars, pipeVars>>

(***************************************************************************)
(* dhtCleanup (dht22.c:120-141).                                           *)
(***************************************************************************)
\* p points at a dht_t that may be read: a live heap block holding one, or
\* the caller's own copy
ReadableDht(st, p) ==
    /\ p \in st.allocated \cup {StackAddr}
    /\ st.mem[p].t = "dht"
ReadablePvt(st, q) == q \in st.allocated /\ st.mem[q].t = "pvt"
\* the call reads only memory it may read
CleanupDefined(st, ppDht) ==
    IF ppDht = NULL THEN TRUE
    ELSE IF st.refs[ppDht] = NULL THEN TRUE
    ELSE /\ ReadableDht(st, st.refs[ppDht])
         /\ ReadablePvt(st, st.mem[st.refs[ppDht]].opaque)

\* the argument is one dhtCleanup must refuse: a null reference, a reference
\* to null, or a handle whose token does not record the handle's address
FailsIdentity(st, ppDht) ==
    IF ppDht = NULL THEN TRUE
    ELSE IF st.refs[ppDht] = NULL THEN TRUE
    ELSE st.mem[st.mem[st.refs[ppDht]].opaque].pDhtAddress # st.refs[ppDht]

dhtCleanupMutant(st, ppDht) ==
    IF ppDht = NULL THEN InitResult("DHT_INVALID_INPUT", st)
    ELSE IF st.refs[ppDht] = NULL THEN InitResult("DHT_INVALID_INPUT", st)
    ELSE InitResult("DHT_OK",
            [st EXCEPT !.allocated = @ \ {st.refs[ppDht]},
                       !.mem[st.refs[ppDht]] = Nothing,
                       !.refs[ppDht] = NULL])
dhtCleanup(st, ppDht) ==
    \* line 122
    IF ppDht = NULL THEN InitResult("DHT_INVALID_INPUT", st)
    ELSE IF st.refs[ppDht] = NULL THEN InitResult("DHT_INVALID_INPUT", st)
    ELSE LET pDht == st.refs[ppDht]
             pvt == st.mem[pDht].opaque                    \* line 127
         IN  IF st.mem[pvt].pDhtAddress # pDht              \* line 133
             THEN InitResult("DHT_INVALID_INPUT", st)
             \* lines 138-140: free(*ppDht); *ppDht = NULL
             ELSE InitResult("DHT_OK",
                     [st EXCEPT !.allocated = @ \ {pDht},
                                !.mem[pDht] = Nothing,
                                !.refs[ppDht] = NULL])

Cleanup ==
    /\ ub = "none"
    /\ \E ppDht \in {NULL} \cup RefIds :
          /\ CleanupDefined(HeapState, ppDht)
          /\ LET r == dhtCleanup(HeapState, ppDht)
             IN  /\ allocated' = r.allocated
                 /\ mem' = r.mem
                 /\ refs' = r.refs
                 /\ last' = [op |-> "dhtCleanup", ret |-> r.ret,
                             viaCopy |-> IF ppDht = NULL THEN FALSE
                                         ELSE refs[ppDht] = StackAddr,
                             refNull |-> IF ppDht = NULL THEN FALSE
                                         ELSE r.refs[ppDht] = NULL,
                             refused |-> FailsIdentity(HeapState, ppDht),
                             changed |-> Changed(HeapState, r)]
    /\ UNCHANGED <<ub, decVars, readVars, pipeVars>>

\* dhtCleanup on a pointer to memory that is no longer the handle (freed, or
\* handed out again as a token): line 127 reads it all the same.  What is
\* read is undefined: the old contents (the leaked token still records the
\* address, line 138 frees the block again), other contents (line 133
\* refuses), or a wild pointer (the read at line 133 faults).
CleanupDangling ==
    /\ ub = "none"
    /\ \E ppDht \in RefIds :
          /\ ~CleanupDefined(HeapState, ppDht)
          /\ \E outcome \in {"freed_again", "refused", "fault"} :
                /\ ub' = outcome
                /\ allocated' = IF outcome = "freed_again"
                                THEN allocated \ {refs[ppDht]} ELSE allocated
                /\ refs' = IF outcome = "freed_again"
                           THEN [refs EXCEPT ![ppDht] = NULL] ELSE refs
                /\ last' = [op |-> "dhtCleanup",
                            ret |-> CASE outcome = "freed_again" -> "DHT_OK"
                                      [] outcome = "refused" -> "DHT_INVALID_INPUT"
                                      [] OTHER -> "NONE",
                            viaCopy |-> FALSE,
                            refNull |-> outcome = "freed_again", refused |-> FALSE,
                            changed |-> outcome = "freed_again"]
    /\ UNCHANGED <<mem, decVars, readVars, pipeVars>>

(***************************************************************************)
(* The caller between calls: it may copy a handle pointer into another     *)
(* variable, or copy the dht_t itself into storage of its own and point a  *)
(* variable at the copy.                                                   *)
(***************************************************************************)
CopyPointer ==
    /\ ub = "none"
    /\ \E from \in RefIds, to \in RefIds :
          /\ refs[from] # NULL
          /\ refs[to] # refs[from]
          /\ refs' = [refs EXCEPT ![to] = refs[from]]
    /\ last' = NoCall("caller")
    /\ UNCHANGED <<allocated, mem, ub, decVars, readVars, pipeVars>>

CopyStruct ==
    /\ ub = "none"
    /\ \E from \in RefIds, to \in RefIds :
          /\ refs[from] \in allocated
          /\ mem[refs[from]].t = "dht"
          /\ mem' = [mem EXCEPT ![StackAddr] = mem[refs[from]]]
          /\ refs' = [refs EXCEPT ![to] = StackAddr]
    /\ last' = NoCall("caller")
    /\ UNCHANGED <<allocated, ub, decVars, readVars, pipeVars>>

NextLife == Initialize \/ Cleanup \/ CleanupDangling \/ CopyPointer \/ CopyStruct


(***************************************************************************)
(* dhtRead (dht22.c:148-175): the tick counter and the rate limiter.       *)
(***************************************************************************)
\* FreeRTOS tick rate (the ESP8266 RTOS SDK's default; the SDK configuration
\* is not part of the repository); pdMS_TO_TICKS is the SDK's macro
configTICK_RATE_HZ == 100
pdMS_TO_TICKS(ms) == (ms * configTICK_RATE_HZ) \div 1000

\* uint32_t a - c and a + d (d < 2^16), modulo 2^32
SubU32(a, c) ==
    LET lo == a[2] - c[2]
        borrow == IF lo < 0 THEN 1 ELSE 0
    IN  <<(a[1] - c[1] - borrow + 2 * W16) % W16, (lo + W16) % W16>>
AddU32(a, d) ==
    LET lo == a[2] + d
    IN  <<(a[1] + lo \div W16) % W16, lo % W16>>
\* a < n for a small n
LessU32(a, n) == a[1] = 0 /\ a[2] < n

\* line 161: (ticks - pDht->pc) < pdMS_TO_TICKS(2000)
TooFrequent(now, pDht) ==
    LessU32(SubU32(now, U32Of(pDht.pc)), pdMS_TO_TICKS(2000))

(***************************************************************************)
(* dhtReadRawData (dht22.c:201-297): the wait loops.                       *)
(***************************************************************************)
DHT_LOW == 0
DHT_HIGH == 1
BEGIN_READ_CYCLE_LOW == 10
BEGIN_READ_CYCLE_DHT_LOW == 80
BEGIN_READ_CYCLE_DHT_HIGH == 80
BEGIN_DATA_READ_DHT_ATTENTION == 50
BEGIN_DATA_RECEIVE_DHT_DATA == 70

\* the loop of each phase: while (counter++ < Budget && level == WaitLevel)
Budget(phase) ==
    CASE phase = "ackLow" -> BEGIN_READ_CYCLE_DHT_LOW
      [] phase = "ackHigh" -> BEGIN_READ_CYCLE_DHT_HIGH
      [] phase = "bitLow" -> BEGIN_DATA_READ_DHT_ATTENTION
      [] phase = "bitHigh" -> BEGIN_DATA_RECEIVE_DHT_DATA
WaitLevel(phase) ==
    IF phase \in {"ackLow", "bitLow"} THEN DHT_LOW ELSE DHT_HIGH
\* lines 240-243, 251-254, 267-270, 277-280
TimeoutError(phase) ==
    IF phase \in {"ackLow", "bitLow"} THEN "DHT_SENSOR_DID_NOT_SWITCH_TO_HIGH"
    ELSE "DHT_SENSOR_DID_NOT_SWITCH_TO_LOW"

\* One pass through a wait loop's test and what follows it.  e is the
\* engine's state [rpc, x, counter, prevState, b], v the level
\* gpio_get_level returns.  The result is the engine's next state and ret:
\* "NONE" while dhtReadRawData runs, else the code it returns.
Engine(phase, xx, c, prev, buf, ret) ==
    [rpc |-> phase, x |-> xx, counter |-> c, prevState |-> prev, b |-> buf, ret |-> ret]
SampleStepMutant(e, v) ==
    LET c1 == e.counter + 1
    IN  IF v = WaitLevel(e.rpc)
        THEN IF c1 < Budget(e.rpc) - 1
             THEN Engine(e.rpc, e.x, c1, v, e.b, "NONE")
             ELSE Engine("idle", e.x, c1 + 1, v, e.b, TimeoutError(e.rpc))
        ELSE CASE e.rpc = "ackLow" -> Engine("ackHigh", e.x, 0, v, e.b, "NONE")
               [] e.rpc = "ackHigh" -> Engine("bitLow", 0, 0, v, e.b, "NONE")
               [] e.rpc = "bitLow" -> Engine("bitHigh", e.x, 0, v, e.b, "NONE")
               [] e.rpc = "bitHigh" ->
                    LET b1 == [e.b EXCEPT ![40 - (e.x + 1)] = c1 % 256]
                    IN  IF e.x + 1 < 40
                        THEN Engine("bitLow", e.x + 1, 0, v, b1, "NONE")
                        ELSE Engine("idle", e.x + 1, c1, v, b1, "DHT_OK")
SampleStepOrderMutant(e, v) ==
    LET c1 == e.counter + 1
    IN  IF v = WaitLevel(e.rpc)
        THEN IF c1 < Budget(e.rpc)
             THEN Engine(e.rpc, e.x, c1, v, e.b, "NONE")
             ELSE Engine("idle", e.x, c1 + 1, v, e.b, TimeoutError(e.rpc))
        ELSE CASE e.rpc = "ackLow" -> Engine("ackHigh", e.x, 0, v, e.b, "NONE")
               [] e.rpc = "ackHigh" -> Engine("bitLow", 0, 0, v, e.b, "NONE")
               [] e.rpc = "bitLow" -> Engine("bitHigh", e.x, 0, v, e.b, "NONE")
               [] e.rpc = "bitHigh" ->
                    LET b1 == [e.b EXCEPT ![e.x] = c1 % 256]
                    IN  IF e.x + 1 < 40
                        THEN Engine("bitLow", e.x + 1, 0, v, b1, "NONE")
                        ELSE Engine("idle", e.x + 1, c1, v, b1, "DHT_OK")
SampleStepUnboundedMutant(e, v) ==
    LET c1 == e.counter + 1
    IN  IF v = WaitLevel(e.rpc)
        THEN IF c1 < Budget(e.rpc) \/ e.rpc = "ackHigh"
             THEN Engine(e.rpc, e.x, c1, v, e.b, "NONE")
             ELSE Engine("idle", e.x, c1 + 1, v, e.b, TimeoutError(e.rpc))
        ELSE CASE e.rpc = "ackLow" -> Engine("ackHigh", e.x, 0, v, e.b, "NONE")
               [] e.rpc = "ackHigh" -> Engine("bitLow", 0, 0, v, e.b, "NONE")
               [] e.rpc = "bitLow" -> Engine("bitHigh", e.x, 0, v, e.b, "NONE")
               [] e.rpc = "bitHigh" ->
                    LET b1 == [e.b EXCEPT ![40 - (e.x + 1)] = c1 % 256]
                    IN  IF e.x + 1 < 40
                        THEN Engine("bitLow", e.x + 1, 0, v, b1, "NONE")
                        ELSE Engine("idle", e.x + 1, c1, v, b1, "DHT_OK")
SampleStep(e, v) ==
    LET c1 == e.counter + 1                     \* counter++ (its test passed)
    IN  IF v = WaitLevel(e.rpc)
        THEN IF c1 < Budget(e.rpc)
             THEN Engine(e.rpc, e.x, c1, v, e.b, "NONE")       \* ets_delay_us(1)
             \* the next test fails (counter++ again), prevState is still
             \* the wait level: the function returns the phase's error
             ELSE Engine("idle", e.x, c1 + 1, v, e.b, TimeoutError(e.rpc))
        ELSE CASE e.rpc = "ackLow" -> Engine("ackHigh", e.x, 0, v, e.b, "NONE")
               [] e.rpc = "ackHigh" -> Engine("bitLow", 0, 0, v, e.b, "NONE")
               [] e.rpc = "bitLow" -> Engine("bitHigh", e.x, 0, v, e.b, "NONE")
               [] e.rpc = "bitHigh" ->
                    \* line 283: b[40-(x+1)] = counter; then x++
                    LET b1 == [e.b EXCEPT ![40 - (e.x + 1)] = c1 % 256]
                    IN  IF e.x + 1 < 40
                        THEN Engine("bitLow", e.x + 1, 0, v, b1, "NONE")
                        ELSE Engine("idle", e.x + 1, c1, v, b1, "DHT_OK")

(***************************************************************************)
(* The sensor on the line.  It transmits the frame of inp with the pulse   *)
(* widths of sensor.style.  A faulty sensor may change the line at any     *)
(* sample of a handshake or low phase, and may hold the line high instead  *)
(* of ending a bit's pulse.                                                *)
(***************************************************************************)
ReadStyles == { <<19, 20>>, <<1, 70>> }

\* the width, in samples, of the high pulse of the bit now transmitted
PulseWidth == EncodeFrame(inp, sensor.style)[39 - bitx]

Levels ==
    IF rpc = "bitHigh"
    THEN IF counter + 1 = PulseWidth
         THEN IF sensor.faulty THEN {DHT_LOW, DHT_HIGH} ELSE {DHT_LOW}
         ELSE {DHT_HIGH}
    ELSE IF sensor.faulty THEN {DHT_LOW, DHT_HIGH}
    ELSE IF counter = 0 THEN {WaitLevel(rpc)} ELSE {1 - WaitLevel(rpc)}

(***************************************************************************)
(* dhtRead, step by step.                                                  *)
(***************************************************************************)
TickCap == pdMS_TO_TICKS(2000)
\* elapsed ticks, counted up to TickCap; -1 when there is nothing to count from
Elapse(n, d) == IF n < 0 THEN n ELSE IF n + d > TickCap THEN TickCap ELSE n + d
ElapseAll(sn, d) ==
    [create |-> Elapse(sn.create, d), prev |-> Elapse(sn.prev, d),
     gate |-> Elapse(sn.gate, d)]

NoHist == [phase |-> "none", nsamp |-> 0, allWait |-> TRUE, changes |-> 0,
           decoded |-> FALSE, stores |-> 0]
NoRead == [pDht |-> FALSE, outdata |-> FALSE, create |-> -1, prev |-> -1, gate |-> -1]

ReadIdle ==
    /\ ticks = U32Of(0)
    /\ hnd = NewDht(5, 1)
    /\ sensor = [faulty |-> FALSE, style |-> <<19, 20>>]
    /\ rpc = "idle"
    /\ bitx = 0
    /\ counter = 0
    /\ prevState = DHT_HIGH
    /\ gpioFail = "none"
    /\ reads = 0
    /\ delayed = FALSE
    /\ since = [create |-> 0, prev |-> -1, gate |-> -1]
    /\ call = NoRead
    /\ hist = NoHist

\* dhtRead up to vTaskDelay: lines 150-164, then dhtReadRawData lines 203-215.
\* pDhtOk and outOk say whether the pointer arguments are non-null.
ReadBegin ==
    /\ rpc = "idle"
    /\ reads > 0
    /\ reads' = reads - 1
    /\ delayed' = FALSE
    /\ \E pDhtOk \in BOOLEAN, outOk \in BOOLEAN,
          fail \in {"none", "dirOut", "levelLow", "levelHigh", "dirIn"} :
          LET ret == IF ~pDhtOk THEN "DHT_INVALID_INPUT"
                     ELSE IF ~outOk THEN "DHT_INVALID_INPUT"
                     ELSE IF TooFrequent(ticks, hnd)
                          THEN "DHT_READ_QUERY_TOO_FREQUENT"
                     ELSE IF fail = "dirOut" THEN "DHT_FAILED_TO_SET_PIN_DIRECTION"
                     ELSE IF fail = "levelLow" THEN "DHT_FAILED_TO_SET_PIN_LEVEL"
                     ELSE "NONE"
              gated == pDhtOk /\ outOk /\ ~TooFrequent(ticks, hnd)
          IN  /\ call' = [pDht |-> pDhtOk, outdata |-> outOk, create |-> since.create,
                          prev |-> since.prev, gate |-> since.gate]
              /\ since' = [create |-> since.create,
                           prev |-> IF pDhtOk THEN 0 ELSE since.prev,
                           gate |-> IF gated THEN 0 ELSE since.gate]
              /\ gpioFail' = IF gated THEN fail ELSE "none"
              /\ result' = ret
              /\ rpc' = IF ret = "NONE" THEN "wake" ELSE "idle"
              \* line 167: uint8_t b[40] = {0}
              /\ b' = IF gated THEN [i \in 0 .. 39 |-> 0] ELSE b
    /\ outdata0' = outdata
    /\ hist' = NoHist
    /\ UNCHANGED <<inp, outdata, flipped, ticks, hnd, sensor, bitx, counter, prevState,
                   lifeVars, pipeVars>>

\* vTaskDelay returns; lines 218-233
WakeDone ==
    /\ rpc = "wake"
    /\ ticks' = AddU32(ticks, pdMS_TO_TICKS(BEGIN_READ_CYCLE_LOW))
    /\ since' = ElapseAll(since, pdMS_TO_TICKS(BEGIN_READ_CYCLE_LOW))
    /\ LET ret == IF gpioFail = "levelHigh" THEN "DHT_FAILED_TO_SET_PIN_LEVEL"
                  ELSE IF gpioFail = "dirIn" THEN "DHT_FAILED_TO_SET_PIN_DIRECTION"
                  ELSE "NONE"
       IN  /\ result' = ret
           /\ rpc' = IF ret = "NONE" THEN "ackLow" ELSE "idle"
    /\ counter' = 0
    /\ hist' = [hist EXCEPT !.phase = "ackLow"]
    /\ UNCHANGED <<inp, b, outdata, outdata0, flipped, hnd, sensor, bitx, prevState,
                   gpioFail, reads, delayed, call, lifeVars, pipeVars>>

\* one sample of the line; with the last bit stored, lines 170-174 decode
Sample ==
    /\ rpc \in {"ackLow", "ackHigh", "bitLow", "bitHigh"}
    /\ \E v \in Levels :
          LET e == SampleStep(Engine(rpc, bitx, counter, prevState, b, "NONE"), v)
              r == IF e.ret = "DHT_OK" THEN dhtProcessRawData(e.b, outdata)
                   ELSE [result |-> e.ret, outdata |-> outdata]
              samePhase == e.rpc = rpc /\ e.x = bitx
          IN  /\ rpc' = e.rpc
              /\ bitx' = e.x
              /\ counter' = e.counter
              /\ prevState' = e.prevState
              /\ b' = e.b
              /\ result' = r.result
              /\ outdata' = r.outdata
              /\ hist' =
                   IF e.rpc = "idle"
                   THEN [hist EXCEPT !.nsamp = @ + 1,
                                     !.allWait = @ /\ v = WaitLevel(rpc),
                                     !.changes = IF v = WaitLevel(rpc) THEN @ ELSE @ + 1,
                                     !.decoded = e.ret = "DHT_OK",
                                     !.stores = IF e.b # b THEN @ + 1 ELSE @]
                   ELSE IF samePhase
                   THEN [hist EXCEPT !.nsamp = @ + 1,
                                     !.allWait = @ /\ v = WaitLevel(rpc)]
                   ELSE [hist EXCEPT !.phase = e.rpc, !.nsamp = 0, !.allWait = TRUE,
                                     !.changes = @ + 1,
                                     !.stores = IF e.b # b THEN @ + 1 ELSE @]
    /\ UNCHANGED <<inp, outdata0, flipped, ticks, hnd, sensor, gpioFail, reads,
                   delayed, since, call, lifeVars, pipeVars>>

\* the caller sleeps between two calls
DelaysMs == {1980, 1990, 2000}
Delay ==
    /\ rpc = "idle"
    /\ reads > 0
    /\ ~delayed
    /\ delayed' = TRUE
    /\ \E ms \in DelaysMs :
          /\ ticks' = AddU32(ticks, pdMS_TO_TICKS(ms))
          /\ since' = ElapseAll(since, pdMS_TO_TICKS(ms))
    /\ UNCHANGED <<decVars, hnd, sensor, rpc, bitx, counter, prevState, gpioFail, reads,
                   call, hist, lifeVars, pipeVars>>

NextRead == ReadBegin \/ WakeDone \/ Sample \/ Delay

\* the frames the sensor transmits while the engine is examined: a positive
\* and the all-zero reading, one with a wrong checksum, and a negative one
\* with the checksum the decoder computes
ReadInputs ==
    { [h |-> 653, sign |-> 0, mag |-> 231, cs |-> TxChecksum(653, 0, 231)],
      [h |-> 0, sign |-> 0, mag |-> 0, cs |-> 0],
      [h |-> 653, sign |-> 0, mag |-> 231, cs |-> 0],
      [h |-> 1000, sign |-> 1, mag |-> 5,
       cs |-> CalculatedChecksum(U32Of(1000), NegU32(U32Of(5)))] }

\* one dhtRead call on a handle just created, the sensor faulty or not
InitRead ==
    /\ LifeIdle
    /\ PipeIdle
    /\ inp \in ReadInputs
    /\ b = [i \in 0 .. 39 |-> 0]
    /\ outdata = StaleData
    /\ outdata0 = StaleData
    /\ result = "NONE"
    /\ flipped = -1
    /\ ticks \in {U32Of(pdMS_TO_TICKS(1990)), U32Of(pdMS_TO_TICKS(2000))}
    /\ hnd = NewDht(5, 1)
    /\ sensor \in [faulty : BOOLEAN, style : ReadStyles]
    /\ rpc = "idle"
    /\ bitx = 0
    /\ counter = 0
    /\ prevState = DHT_HIGH
    /\ gpioFail = "none"
    /\ reads = 1
    /\ delayed = FALSE
    /\ since = [create |-> 0, prev |-> -1, gate |-> -1]
    /\ call = NoRead
    /\ hist = NoHist

SpecRead == InitRead /\ [][NextRead]_vars

\* the tick counter's value when the handle is created: at boot, 2000 ms
\* after it, and shortly before the 32-bit counter wraps
MaxReads == 2
CreateTicks == { U32Of(0), U32Of(pdMS_TO_TICKS(2000)), <<W16 - 1, W16 - 200>> }

\* up to MaxReads calls on one handle, with a sound sensor
InitGate ==
    /\ LifeIdle
    /\ PipeIdle
    /\ inp = [h |-> 653, sign |-> 0, mag |-> 231, cs |-> TxChecksum(653, 0, 231)]
    /\ b = [i \in 0 .. 39 |-> 0]
    /\ outdata = StaleData
    /\ outdata0 = StaleData
    /\ result = "NONE"
    /\ flipped = -1
    /\ ticks \in CreateTicks
    /\ hnd = NewDht(5, 1)
    /\ sensor = [faulty |-> FALSE, style |-> <<1, 20>>]
    /\ rpc = "idle"
    /\ bitx = 0
    /\ counter = 0
    /\ prevState = DHT_HIGH
    /\ gpioFail = "none"
    /\ reads = MaxReads
    /\ delayed = FALSE
    /\ since = [create |-> 0, prev |-> -1, gate |-> -1]
    /\ call = NoRead
    /\ hist = NoHist

SpecGate == InitGate /\ [][NextRead]_vars

(***************************************************************************)
(* The program (user_main.c): app_main creates the queue and the two       *)
(* tasks; ReadSensorTask reads the sensor and sends entries;               *)
(* WriteSensorTask receives and reports them.  A step is what a task does  *)
(* between two points at which another task may run; delays and timeouts   *)
(* end at any moment.                                                      *)
(***************************************************************************)
MAX_QUEUE_SIZE == 10
MaxAttempts == 11

\* while (!gQUIT), lines 44 and 81
LoopContinuesMutant(quit) == FALSE
LoopContinues(quit) == ~quit
\* if (dhtQEntry.result == DHT_OK), line 46
ShouldReportMutant(e) == TRUE
ShouldReport(e) == e.result = "DHT_OK"
\* xQueueSendToBack and xQueueReceive on a queue of MAX_QUEUE_SIZE entries
QueueFull(q) == Len(q) >= MAX_QUEUE_SIZE
QueueSendToBackMutant(q, e) == <<e>> \o q
QueueSendToBack(q, e) == Append(q, e)

\* How attempt n may go: a pin call fails before the sensor is woken
\* ("early"), the frame arrives intact ("good"), or it arrives with a wrong
\* checksum ("bad").  The first FreeAttempts attempts go any way; the later
\* ones take turns.
FreeAttempts == 3
Outcomes(n) ==
    IF n <= FreeAttempts THEN {"early", "good", "bad"}
    ELSE IF n % 3 = 0 THEN {"good"}
    ELSE IF n % 3 = 1 THEN {"early"}
    ELSE {"bad"}
\* the frames the sensor sends: one in odd attempts, another in even ones,
\* and one with a wrong checksum
PipeFrames ==
    [ odd  |-> [h |-> 653, sign |-> 0, mag |-> 231, cs |-> TxChecksum(653, 0, 231)],
      even |-> [h |-> 1000, sign |-> 0, mag |-> 5, cs |-> TxChecksum(1000, 0, 5)],
      bad  |-> [h |-> 653, sign |-> 0, mag |-> 231, cs |-> 0] ]
\* dhtProcessRawData on each of them
PipeDecoded ==
    [k \in DOMAIN PipeFrames |->
        dhtProcessRawData(EncodeFrame(PipeFrames[k], <<19, 20>>), StaleData)]

\* ---- app_main (lines 94-118) ----
\* line 97
MainCreateQueue ==
    /\ ub = "none" /\ mainPc = "start"
    /\ \E ok \in BOOLEAN :
          /\ qState' = IF ok THEN "live" ELSE "unset"
          /\ mainPc' = IF ok THEN "createReader" ELSE "done"
    /\ UNCHANGED <<gQUIT, queue, prodPc, consPc, dhtQEntry, attempts, sentLog, recvLog,
                   plog, decVars, lifeVars, readVars>>

\* lines 103-109
MainCreateReader ==
    /\ ub = "none" /\ mainPc = "createReader"
    /\ \E ok \in BOOLEAN :
          /\ prodPc' = IF ok THEN "init" ELSE prodPc
          /\ gQUIT' = IF ok THEN gQUIT ELSE TRUE
          /\ qState' = IF ok THEN qState ELSE "deleted"
          /\ mainPc' = IF ok THEN "createWriter" ELSE "done"
          /\ plog' = IF ok THEN [plog EXCEPT !.tasks = @ \cup {"reader"}]
                     ELSE [plog EXCEPT !.quitBy = @ \cup {"startup"}]
    /\ UNCHANGED <<queue, consPc, dhtQEntry, attempts, sentLog, recvLog,
                   decVars, lifeVars, readVars>>

\* lines 111-113: on failure the flag is set and app_main sleeps 2000 ms
MainCreateWriter ==
    /\ ub = "none" /\ mainPc = "createWriter"
    /\ \E ok \in BOOLEAN :
          /\ consPc' = IF ok THEN "test" ELSE consPc
          /\ gQUIT' = IF ok THEN gQUIT ELSE TRUE
          /\ mainPc' = IF ok THEN "done" ELSE "quitDelay"
          /\ plog' = IF ok THEN [plog EXCEPT !.tasks = @ \cup {"writer"}]
                     ELSE [plog EXCEPT !.quitBy = @ \cup {"startup"}]
    /\ UNCHANGED <<qState, queue, prodPc, dhtQEntry, attempts, sentLog, recvLog,
                   decVars, lifeVars, readVars>>

\* lines 113-116: the delay is over, vQueueDelete
MainDeleteQueue ==
    /\ ub = "none" /\ mainPc = "quitDelay"
    /\ qState' = "deleted"
    /\ queue' = <<>>
    /\ mainPc' = "done"
    /\ UNCHANGED <<gQUIT, prodPc, consPc, dhtQEntry, attempts, sentLog, recvLog, plog,
                   decVars, lifeVars, readVars>>

\* ---- ReadSensorTask (lines 68-92) ----
\* lines 73-80: where the task goes with dhtInitialize's result
AfterInitMutant(ret) == "firstDelay"
AfterInit(ret) == IF ret # "DHT_OK" THEN "return" ELSE "firstDelay"
\* line 73: dhtInitialize(GPIO_NUM_5, DHT_SENSOR_NAME, &pDht) returns; on
\* failure lines 74-75 set gQUIT.  The allocator hands out the lowest free
\* block or fails; gpio_set_pull_mode succeeds or not.
ProducerInit ==
    /\ ub = "none" /\ prodPc = "init"
    /\ \E env \in {<<NULL, NULL, FALSE>>, <<1, NULL, FALSE>>, <<1, 2, FALSE>>,
                   <<1, 2, TRUE>>} :
          LET r == dhtInitialize(HeapState, 5, DHT_MAX_SENSOR_NAME + 6, 1,
                                 env[1], env[2], env[3])
              failed == r.ret # "DHT_OK"
          IN  /\ allocated' = r.allocated
              /\ mem' = r.mem
              /\ refs' = r.refs
              /\ last' = [op |-> "dhtInitialize", ret |-> r.ret,
                          viaCopy |-> FALSE, refNull |-> FALSE,
                          refused |-> FALSE, changed |-> Changed(HeapState, r)]
              /\ dhtQEntry' = [dhtQEntry EXCEPT !.result = r.ret]
              /\ gQUIT' = IF failed THEN TRUE ELSE gQUIT
              /\ prodPc' = AfterInit(r.ret)
              /\ plog' = [plog EXCEPT !.initRet = r.ret,
                                      !.quitBy = IF failed THEN @ \cup {"producer"} ELSE @]
    /\ UNCHANGED <<ub, qState, queue, mainPc, consPc, attempts, sentLog, recvLog,
                   decVars, readVars>>

\* dht22.c:70 inside that call: DHT_SENSOR_NAME is a string literal of 38
\* characters, and name[31] = 0 writes into it.  The behaviour is undefined:
\* the store goes through (ProducerInit) or the program faults.
ProducerInitFault ==
    /\ ub = "none" /\ prodPc = "init"
    /\ ub' = "fault"
    /\ UNCHANGED <<allocated, mem, refs, last, decVars, readVars, pipeVars>>

\* line 76: the task function returns, which a FreeRTOS task must not do
\* (lines 61 and 91 call vTaskDelete(NULL) instead).  The port decides what
\* follows: the task is gone, or the program faults.
ProducerReturn ==
    /\ ub = "none" /\ prodPc = "return"
    /\ \E outcome \in {"gone", "fault"} :
          /\ prodPc' = IF outcome = "gone" THEN "gone" ELSE prodPc
          /\ ub' = IF outcome = "gone" THEN ub ELSE "fault"
    /\ UNCHANGED <<allocated, mem, refs, last, gQUIT, qState, queue, mainPc, consPc,
                   dhtQEntry, attempts, sentLog, recvLog, plog, decVars, readVars>>

\* line 80, and line 87: vTaskDelay is over
ProducerWake ==
    /\ ub = "none" /\ prodPc \in {"firstDelay", "sleep"}
    /\ prodPc' = "test"
    /\ UNCHANGED <<gQUIT, qState, queue, mainPc, consPc, dhtQEntry, attempts, sentLog,
                   recvLog, plog, decVars, lifeVars, readVars>>

\* line 81, and lines 90-91 when the loop ends
ProducerTest ==
    /\ ub = "none" /\ prodPc = "test"
    /\ prodPc' = IF LoopContinues(gQUIT) THEN "read" ELSE "gone"
    /\ UNCHANGED <<gQUIT, qState, queue, mainPc, consPc, dhtQEntry, attempts, sentLog,
                   recvLog, plog, decVars, lifeVars, readVars>>

\* line 82: dhtRead up to its vTaskDelay (dht22.c:150-215); a pin call may
\* fail first, and then dhtRead returns at once
ProducerReadBegin ==
    /\ ub = "none" /\ prodPc = "read"
    /\ attempts < MaxAttempts
    /\ attempts' = attempts + 1
    /\ \E early \in {o = "early" : o \in Outcomes(attempts + 1)} :
          /\ dhtQEntry' = [dhtQEntry EXCEPT
                             !.result = IF early THEN "DHT_FAILED_TO_SET_PIN_DIRECTION"
                                        ELSE "NONE",
                             !.n = attempts + 1, !.wrote = "none"]
          /\ prodPc' = IF early THEN "send" ELSE "readWake"
    /\ UNCHANGED <<gQUIT, qState, queue, mainPc, consPc, sentLog, recvLog, plog,
                   decVars, lifeVars, readVars>>

\* the rest of dhtRead (dht22.c:218-297, 169-174): the frame is read and decoded
\* dhtQEntry after the read: &dhtQEntry.dhtData is written only when the
\* decode returns DHT_OK (dht22.c:359-378)
ReadOutcome(entry, o) ==
    LET k == IF o = "bad" THEN "bad" ELSE IF entry.n % 2 = 1 THEN "odd" ELSE "even"
        r == PipeDecoded[k]
    IN  [entry EXCEPT !.result = r.result,
                      !.dhtData = IF r.result = "DHT_OK" THEN r.outdata ELSE @,
                      !.wrote = IF r.result = "DHT_OK" THEN r.outdata ELSE "none"]
ProducerReadEnd ==
    /\ ub = "none" /\ prodPc = "readWake"
    /\ prodPc' = "send"
    /\ \E o \in Outcomes(dhtQEntry.n) \ {"early"} :
          dhtQEntry' = ReadOutcome(dhtQEntry, o)
    /\ UNCHANGED <<gQUIT, qState, queue, mainPc, consPc, attempts, sentLog, recvLog, plog,
                   decVars, lifeVars, readVars>>

\* line 83: xQueueSendToBack finds room, at once or while it waits
ProducerSend ==
    /\ ub = "none" /\ prodPc \in {"send", "sendBlocked"}
    /\ qState = "live"
    /\ ~QueueFull(queue)
    /\ queue' = QueueSendToBack(queue, dhtQEntry)
    /\ sentLog' = Append(sentLog, dhtQEntry.n)
    /\ prodPc' = "sleep"
    /\ UNCHANGED <<gQUIT, qState, mainPc, consPc, dhtQEntry, attempts, recvLog, plog,
                   decVars, lifeVars, readVars>>

\* line 83: the queue is full and the task waits, up to 1000 ms
ProducerSendBlock ==
    /\ ub = "none" /\ prodPc = "send"
    /\ qState = "live"
    /\ QueueFull(queue)
    /\ prodPc' = "sendBlocked"
    /\ UNCHANGED <<gQUIT, qState, queue, mainPc, consPc, dhtQEntry, attempts, sentLog,
                   recvLog, plog, decVars, lifeVars, readVars>>

\* lines 83-85: the queue stayed full for 1000 ms, the entry is not sent
ProducerSendTimeout ==
    /\ ub = "none" /\ prodPc = "sendBlocked"
    /\ qState = "live"
    /\ QueueFull(queue)
    /\ plog' = [plog EXCEPT !.drops = @ + 1]
    /\ prodPc' = "sleep"
    /\ UNCHANGED <<gQUIT, qState, queue, mainPc, consPc, dhtQEntry, attempts, sentLog,
                   recvLog, decVars, lifeVars, readVars>>

\* line 83 after app_main's vQueueDelete: the handle is dangling
UseDeletedQueue ==
    /\ ub = "none" /\ prodPc \in {"send", "sendBlocked"}
    /\ qState = "deleted"
    /\ ub' = "fault"
    /\ UNCHANGED <<allocated, mem, refs, last, decVars, readVars, pipeVars>>

\* ---- WriteSensorTask (lines 40-62) ----
\* line 44, and lines 60-61 when the loop ends
ConsumerTest ==
    /\ ub = "none" /\ consPc = "test"
    /\ consPc' = IF LoopContinues(gQUIT) THEN "receive" ELSE "gone"
    /\ UNCHANGED <<gQUIT, qState, queue, mainPc, prodPc, dhtQEntry, attempts, sentLog,
                   recvLog, plog, decVars, lifeVars, readVars>>

\* lines 45-54: xQueueReceive takes the oldest entry, at once or while it
\* waits; the entry is reported if its result is DHT_OK
ConsumerReceive ==
    /\ ub = "none" /\ consPc \in {"receive", "recvBlocked"}
    /\ qState = "live"
    /\ queue # <<>>
    /\ queue' = Tail(queue)
    /\ recvLog' = Append(recvLog, Head(queue).n)
    /\ plog' = [plog EXCEPT !.lastRecv = Head(queue),
                            !.reported = ShouldReport(Head(queue))]
    /\ consPc' = "test"
    /\ UNCHANGED <<gQUIT, qState, mainPc, prodPc, dhtQEntry, attempts, sentLog,
                   decVars, lifeVars, readVars>>

\* line 45: the queue is empty and the task waits, up to 15000 ms
ConsumerBlock ==
    /\ ub = "none" /\ consPc = "receive"
    /\ qState = "live"
    /\ queue = <<>>
    /\ consPc' = "recvBlocked"
    /\ plog' = [plog EXCEPT !.waits = IF @ < 2 THEN @ + 1 ELSE @]
    /\ UNCHANGED <<gQUIT, qState, queue, mainPc, prodPc, dhtQEntry, attempts, sentLog,
                   recvLog, decVars, lifeVars, readVars>>

\* lines 55-57: nothing arrived for 15000 ms
ConsumerTimeout ==
    /\ ub = "none" /\ consPc = "recvBlocked"
    /\ qState = "live"
    /\ queue = <<>>
    /\ consPc' = "test"
    /\ UNCHANGED <<gQUIT, qState, queue, mainPc, prodPc, dhtQEntry, attempts, sentLog,
                   recvLog, plog, decVars, lifeVars, readVars>>

MainStep == MainCreateQueue \/ MainCreateReader \/ MainCreateWriter \/ MainDeleteQueue
ProducerStep ==
    \/ ProducerInit \/ ProducerInitFault \/ ProducerReturn \/ ProducerWake
    \/ ProducerTest \/ ProducerReadBegin \/ ProducerReadEnd \/ ProducerSend
    \/ ProducerSendBlock \/ ProducerSendTimeout \/ UseDeletedQueue
ConsumerStep == ConsumerTest \/ ConsumerReceive \/ ConsumerBlock \/ ConsumerTimeout

NextPipe ==
    \/ MainCreateQueue \/ MainCreateReader \/ MainCreateWriter \/ MainDeleteQueue
    \/ ProducerInit \/ ProducerInitFault \/ ProducerReturn \/ ProducerWake
    \/ ProducerTest \/ ProducerReadBegin \/ ProducerReadEnd \/ ProducerSend
    \/ ProducerSendBlock \/ ProducerSendTimeout \/ UseDeletedQueue
    \/ ConsumerTest \/ ConsumerReceive \/ ConsumerBlock \/ ConsumerTimeout



InitDecode ==
    /\ \E h \in HumVals, s \in {0, 1}, m \in MagVals :
         \E c \in ChecksumVals(h, s, m), style \in DurStyles :
            /\ inp = [h |-> h, sign |-> s, mag |-> m, cs |-> c]
            /\ b = EncodeFrame(inp, style)
    /\ outdata = StaleData
    /\ outdata0 = outdata
    /\ result = "NONE"
    /\ flipped = -1

\* one slot's duration is pushed across the threshold before decoding
FlipBit ==
    /\ result = "NONE"
    /\ flipped = -1
    /\ \E x \in 0 .. 39 :
         /\ flipped' = x
         /\ b' = [b EXCEPT ![x] = IF BitOf(b[x]) = 1 THEN DHT_BIT_THRESHOLD
                                  ELSE DHT_BIT_THRESHOLD + 1]
    /\ UNCHANGED <<inp, outdata, outdata0, result, lifeVars, readVars, pipeVars>>

Decode ==
    /\ result = "NONE"
    /\ LET r == dhtProcessRawData(b, outdata)
       IN  /\ result' = r.result
           /\ outdata' = r.outdata
    /\ UNCHANGED <<inp, b, outdata0, flipped, lifeVars, readVars, pipeVars>>

\* the decoder's variables while another part of the program is examined
InitDecodeIdle ==
    /\ inp = [h |-> 0, sign |-> 0, mag |-> 0, cs |-> 0]
    /\ b = [x \in 0 .. 39 |-> 0]
    /\ outdata = StaleData
    /\ outdata0 = StaleData
    /\ result = "NONE"
    /\ flipped = -1

NextDecode == FlipBit \/ Decode

InitDecodeSpec == InitDecode /\ LifeIdle /\ ReadIdle /\ PipeIdle
SpecDecode == InitDecodeSpec /\ [][NextDecode]_vars

InitLife == InitDecodeIdle /\ LifeIdle /\ ReadIdle /\ PipeIdle
SpecLife == InitLife /\ [][NextLife]_vars

InitPipe == InitDecodeIdle /\ LifeIdle /\ ReadIdle /\ PipeIdle
SpecPipe == InitPipe /\ [][NextPipe]_vars

\* every task that can take a step eventually takes one (each step moves
\* the task's position or ends in a fault)
taskVars == <<mainPc, prodPc, consPc, ub>>
SpecPipeLive ==
    /\ InitPipe /\ [][NextPipe]_vars
    /\ WF_taskVars(MainStep) /\ WF_taskVars(ProducerStep) /\ WF_taskVars(ConsumerStep)

(***************************************************************************)
(* Claims about the decoder, checked under SpecDecode.                     *)
(***************************************************************************)
\* the frame was decoded as encoded, with no slot flipped
DecodedClean == result # "NONE" /\ flipped = -1
\* the frame carries the checksum a sensor transmits
WellFormed == inp.cs = TxChecksum(inp.h, inp.sign, inp.mag)

\* the Measurement the claims expect for humidity h and signed temperature t,
\* in truncating signed arithmetic
Expected(h, t, csFraction) ==
    LET r == TruncDiv(t * 100, 50) * 9
    IN  [ csTempWhole    |-> TruncDiv(t, 10),
          csTempFraction |-> csFraction,
          rhWhole        |-> h \div 10,
          rhFraction     |-> h % 10,
          faTempWhole    |-> TruncDiv(r, 100) + 32,
          faTempFraction |-> TruncRem(r, 100) ]
\* the caller's struct with each uint16_t field read as a signed value
SignedOut == [f \in DOMAIN outdata |-> AsS16(outdata[f])]

\* C1 (as amended): a well-formed frame with the sign bit clear decodes with
\* DHT_OK to humidity h/10, h%10, Celsius t/10, (t*10)%100 and, with
\* r = ((t*100)/50)*9, Fahrenheit r/100+32, r%100; h=653, t=231 gives 65/3,
\* Celsius 23/10 and Fahrenheit 73/58; the all-zero frame gives 0/0, 0/0, 32/0.
C1_RoundTripPositive ==
    (DecodedClean /\ inp.sign = 0 /\ WellFormed) =>
        /\ result = "DHT_OK"
        /\ outdata = Expected(inp.h, inp.mag, TruncRem(inp.mag * 10, 100))
        /\ (inp.h = 653 /\ inp.mag = 231) =>
              outdata = [ rhWhole |-> 65, rhFraction |-> 3,
                          csTempWhole |-> 23, csTempFraction |-> 10,
                          faTempWhole |-> 73, faTempFraction |-> 58 ]
        /\ (inp.h = 0 /\ inp.mag = 0) =>
              outdata = [ rhWhole |-> 0, rhFraction |-> 0,
                          csTempWhole |-> 0, csTempFraction |-> 0,
                          faTempWhole |-> 32, faTempFraction |-> 0 ]

\* C1 witness: the frame of h=653, t=231 has been decoded with DHT_OK
C1_Witness ==
    /\ DecodedClean /\ inp.sign = 0 /\ WellFormed
    /\ inp.h = 653 /\ inp.mag = 231
    /\ result = "DHT_OK"

\* C1 (as stated): the same round trip, with h=653, t=231 giving Celsius
\* whole 23 and Celsius fraction 1
C1_AsStated ==
    (DecodedClean /\ inp.sign = 0 /\ WellFormed) =>
        /\ result = "DHT_OK"
        /\ outdata = Expected(inp.h, inp.mag, TruncRem(inp.mag * 10, 100))
        /\ (inp.h = 653 /\ inp.mag = 231) =>
              /\ outdata.rhWhole = 65 /\ outdata.rhFraction = 3
              /\ outdata.csTempWhole = 23 /\ outdata.csTempFraction = 1
              /\ outdata.faTempWhole = 73

\* C2: every well-formed frame with the sign bit set (checksum = sum of the
\* four data bytes as transmitted, mod 256) decodes with DHT_OK
C2_NegativeFrameAccepted ==
    (DecodedClean /\ inp.sign = 1 /\ WellFormed) => result = "DHT_OK"

\* C3: whenever a frame with the sign bit set and magnitude M decodes with
\* DHT_OK, the Measurement read as signed 16-bit values is Celsius -(M/10),
\* (-M*10) rem 100 and, with r = ((-M*100)/50)*9, Fahrenheit r/100+32, r rem 100
C3_NegativeConversion ==
    (DecodedClean /\ inp.sign = 1 /\ result = "DHT_OK") =>
        SignedOut = Expected(inp.h, -inp.mag, TruncRem(-inp.mag * 10, 100))

\* the frame as it was before FlipBit pushed slot `flipped` across the threshold
Unflipped ==
    IF flipped = -1 THEN b
    ELSE [b EXCEPT ![flipped] = IF BitOf(b[flipped]) = 1 THEN DHT_BIT_THRESHOLD
                                 ELSE DHT_BIT_THRESHOLD + 1]
\* the byte whose lowest bit is slot lo of the frame buf
ByteOf(buf, lo) ==
    BitOf(buf[lo]) + 2 * BitOf(buf[lo + 1]) + 4 * BitOf(buf[lo + 2])
    + 8 * BitOf(buf[lo + 3]) + 16 * BitOf(buf[lo + 4]) + 32 * BitOf(buf[lo + 5])
    + 64 * BitOf(buf[lo + 6]) + 128 * BitOf(buf[lo + 7])
\* the four data bytes of buf as transmitted sum mod 256 to its checksum byte
TransmittedSumOk(buf) ==
    (ByteOf(buf, 32) + ByteOf(buf, 24) + ByteOf(buf, 16) + ByteOf(buf, 8)) % 256
        = ByteOf(buf, 0)

\* C14: when a frame that decodes with DHT_OK has one slot flipped across the
\* threshold, the flipped frame decodes with DHT_INVALID_CHECKSUM unless its
\* four data bytes as transmitted still sum mod 256 to its checksum byte
C14_SingleFlipDetected ==
    ( /\ result # "NONE" /\ flipped # -1
      /\ dhtProcessRawData(Unflipped, outdata0).result = "DHT_OK"
      /\ ~TransmittedSumOk(b) ) =>
        result = "DHT_INVALID_CHECKSUM"

(***************************************************************************)
(* Claims about the rate limiter, checked under SpecGate.                  *)
(***************************************************************************)
\* the last dhtRead call had both pointer arguments
ArgsGiven == call # NoRead /\ call.pDht /\ call.outdata

\* C4: a dhtRead call made less than 2000 ms after a call on the same handle
\* passed the gate returns DHT_READ_QUERY_TOO_FREQUENT
C4_ConsecutiveThrottled ==
    (ArgsGiven /\ call.gate >= 0 /\ call.gate < pdMS_TO_TICKS(2000)) =>
        result = "DHT_READ_QUERY_TOO_FREQUENT"

\* C5: a dhtRead call made at least 2000 ms after the handle was created and
\* at least 2000 ms after the previous attempt on it is not rejected with
\* DHT_READ_QUERY_TOO_FREQUENT, whatever the tick counter's value
C5_SpacedReadAdmitted ==
    (ArgsGiven /\ call.create >= pdMS_TO_TICKS(2000)
               /\ (call.prev = -1 \/ call.prev >= pdMS_TO_TICKS(2000))) =>
        result # "DHT_READ_QUERY_TOO_FREQUENT"

(***************************************************************************)
(* Claims about one dhtRead call, checked under SpecRead.                  *)
(***************************************************************************)
\* C6: unless dhtRead returns DHT_OK the caller's struct is as it was before
\* the call, and the code returned is that of the first failing step: a null
\* argument before anything else, the rate limiter before any pin is driven,
\* a failing pin call before any sample, a wrong checksum only after all 40
\* bits were read
C6_FailureLeavesMeasurement ==
    /\ result # "DHT_OK" => outdata = outdata0
    /\ (rpc = "idle" /\ call # NoRead) =>
          /\ ~ArgsGiven => (result = "DHT_INVALID_INPUT" /\ hist.phase = "none")
          /\ result = "DHT_READ_QUERY_TOO_FREQUENT" =>
                (ArgsGiven /\ hist.phase = "none")
          /\ gpioFail = "dirOut" =>
                (result = "DHT_FAILED_TO_SET_PIN_DIRECTION" /\ hist.phase = "none")
          /\ gpioFail = "levelLow" =>
                (result = "DHT_FAILED_TO_SET_PIN_LEVEL" /\ hist.phase = "none")
          /\ gpioFail = "levelHigh" =>
                (result = "DHT_FAILED_TO_SET_PIN_LEVEL" /\ hist.nsamp = 0)
          /\ gpioFail = "dirIn" =>
                (result = "DHT_FAILED_TO_SET_PIN_DIRECTION" /\ hist.nsamp = 0)
          /\ result = "DHT_INVALID_CHECKSUM" => (hist.decoded /\ hist.changes = 82)

\* C6 witness: a frame with a wrong checksum was read to its last bit and
\* rejected, the caller's struct still holding what it held
C6_Witness ==
    /\ rpc = "idle" /\ ArgsGiven
    /\ result = "DHT_INVALID_CHECKSUM"
    /\ hist.decoded
    /\ outdata = StaleData

\* the sample budgets the claim gives for the four kinds of phase
ClaimedBudget(phase) ==
    CASE phase \in {"ackLow", "ackHigh"} -> 80
      [] phase = "bitLow" -> 50
      [] phase = "bitHigh" -> 70
      [] OTHER -> -1
\* the read's last phase is one of ps and the line was at the phase's wait
\* level on every one of the budgeted samples
TimedOutIn(ps) ==
    hist.phase \in ps /\ hist.allWait /\ hist.nsamp = ClaimedBudget(hist.phase)

\* C7: dhtRead returns DHT_SENSOR_DID_NOT_SWITCH_TO_HIGH exactly when the line
\* was low on all 80 samples of the ack-low phase or all 50 of a bit's low
\* phase, DHT_SENSOR_DID_NOT_SWITCH_TO_LOW exactly when it was high on all 80
\* samples of the ack-high phase or all 70 of a bit's high phase; after a
\* timeout no sample is taken and no frame decoded; DHT_OK is returned only
\* after the line changed in the two handshake phases and all 80 bit phases
C7_TimeoutsMapped ==
    /\ result = "DHT_SENSOR_DID_NOT_SWITCH_TO_HIGH" <=> TimedOutIn({"ackLow", "bitLow"})
    /\ result = "DHT_SENSOR_DID_NOT_SWITCH_TO_LOW" <=> TimedOutIn({"ackHigh", "bitHigh"})
    /\ TimedOutIn({"ackLow", "ackHigh", "bitLow", "bitHigh"}) =>
          /\ rpc = "idle"
          /\ ~hist.decoded
          /\ outdata = outdata0
    /\ result \in {"DHT_OK", "DHT_INVALID_CHECKSUM"} =>
          (hist.changes = 82 /\ hist.decoded)

\* C7 witness: the fourth bit's pulse never ended and the read was given up
C7_Witness ==
    /\ rpc = "idle"
    /\ result = "DHT_SENSOR_DID_NOT_SWITCH_TO_LOW"
    /\ hist.phase = "bitHigh" /\ bitx = 3
    /\ hist.nsamp = 70

\* the phases in which the line is sampled
Sampling == {"ackLow", "ackHigh", "bitLow", "bitHigh"}

\* C17: while the bits are read, the counts of the bits received so far sit
\* at indices 39 down to 40 - (bits received), each stored once and the other
\* slots untouched; after a successful protocol run the k-th bit received is
\* at index 40 - k, all 40 slots were written once, and every count is in 1..70
C17_FrameLayout ==
    /\ rpc \in {"bitLow", "bitHigh"} =>
          /\ hist.stores = bitx
          /\ \A i \in 0 .. 39 :
                b[i] = IF i > 39 - bitx THEN EncodeFrame(inp, sensor.style)[i] ELSE 0
    /\ hist.decoded =>
          /\ hist.stores = 40
          /\ \A k \in 1 .. 40 : b[40 - k] = EncodeFrame(inp, sensor.style)[40 - k]
          /\ \A i \in 0 .. 39 : b[i] \in 1 .. 70

\* C17 witness: a frame was read to its end, with a pulse that lasted one
\* sample and one that ended on the 70th
C17_Witness ==
    /\ rpc = "idle" /\ hist.decoded /\ result = "DHT_OK"
    /\ \E i \in 0 .. 39 : b[i] = 70
    /\ \E i \in 0 .. 39 : b[i] = 1

\* the number of samples a read at (phase, x, c) may still take
RankOf(phase, xx, c) ==
    CASE phase = "ackLow" -> 80 + 80 + 40 * (50 + 70) - c
      [] phase = "ackHigh" -> 80 + 40 * (50 + 70) - c
      [] phase = "bitLow" -> (40 - xx) * (50 + 70) - c
      [] phase = "bitHigh" -> (40 - xx) * (50 + 70) - 50 - c
      [] OTHER -> 0

\* C18: whatever level the line shows at the next sample, the samples the
\* read may still take become fewer; no phase is sampled more often than its
\* budget of 80, 80, 50 or 70; and once the sampling is over the engine has
\* returned success or a timeout error
C18_ReadTerminates ==
    /\ hist.phase \in Sampling => hist.nsamp <= ClaimedBudget(hist.phase)
    /\ rpc \in Sampling =>
          /\ hist.phase = rpc
          /\ hist.nsamp < ClaimedBudget(rpc)
          /\ RankOf(rpc, bitx, counter) > 0
          /\ \A v \in {DHT_LOW, DHT_HIGH} :
                LET e == SampleStep(Engine(rpc, bitx, counter, prevState, b, "NONE"), v)
                IN  /\ RankOf(e.rpc, e.x, e.counter) < RankOf(rpc, bitx, counter)
                    /\ e.rpc \in Sampling \cup {"idle"}
                    /\ e.rpc = "idle" <=>
                          e.ret \in {"DHT_OK", "DHT_SENSOR_DID_NOT_SWITCH_TO_HIGH",
                                     "DHT_SENSOR_DID_NOT_SWITCH_TO_LOW"}
    /\ (rpc = "idle" /\ hist.nsamp > 0) =>
          (hist.decoded \/ result \in {"DHT_SENSOR_DID_NOT_SWITCH_TO_HIGH",
                                       "DHT_SENSOR_DID_NOT_SWITCH_TO_LOW"})

\* C18 witness: the line stayed low through the last bit's low phase and the
\* read ended after the 50th sample
C18_Witness ==
    /\ rpc = "idle" /\ bitx = 39
    /\ hist.phase = "bitLow" /\ hist.nsamp = 50 /\ hist.allWait
    /\ result = "DHT_SENSOR_DID_NOT_SWITCH_TO_HIGH"

(***************************************************************************)
(* Claims about the program, checked under SpecPipe and SpecPipeLive.      *)
(***************************************************************************)
\* dhtInitialize returned an error in ReadSensorTask
CreationFailed == plog.initRet \notin {"NONE", "DHT_OK"}
\* ReadSensorTask has left its function, WriteSensorTask has deleted itself
ProducerExited == prodPc \in {"return", "gone"}
ConsumerExited == consPc = "gone"

\* C11: an entry the consumer reports has the result DHT_OK and carries the
\* Measurement written by the decode of the attempt that produced it; an
\* entry with an error result is not reported
C11_OnlyGoodReported ==
    /\ plog.reported =>
          /\ plog.lastRecv.result = "DHT_OK"
          /\ plog.lastRecv.dhtData = plog.lastRecv.wrote
    /\ plog.lastRecv.result # "DHT_OK" => ~plog.reported

\* C11 witness: the consumer has reported the Measurement of the second
\* attempt, 100.0 % and 0.5 C
C11_Witness ==
    /\ plog.reported /\ plog.lastRecv.n = 2
    /\ plog.lastRecv.dhtData.rhWhole = 100
    /\ plog.lastRecv.dhtData.csTempFraction = 50

\* C12: once handle creation has failed, the quit flag is set, the producer
\* is out of its function without having entered its loop, no read attempt
\* was made, nothing was sent and the queue is empty
C12_FailedCreationQuits ==
    CreationFailed =>
        /\ gQUIT
        /\ ProducerExited
        /\ attempts = 0
        /\ sentLog = <<>>
        /\ queue = <<>>

\* C12 witness: the second malloc failed, the producer is gone and the
\* consumer waits on the empty queue
C12_Witness ==
    /\ plog.initRet = "DHT_MALLOC_FAILED"
    /\ prodPc = "gone"
    /\ consPc = "recvBlocked"
    /\ queue = <<>>

\* C13: if handle creation fails then, every task being scheduled fairly,
\* eventually the producer has exited and the consumer, if it was created,
\* has exited
C13_BothExit ==
    CreationFailed ~>
        /\ prodPc = "gone"
        /\ consPc = "gone" \/ (consPc = "absent" /\ mainPc = "done")

\* the attempts of the entries in the queue, oldest first
QueueIds == [i \in 1 .. Len(queue) |-> queue[i].n]
IsPrefix(p, q) == Len(p) <= Len(q) /\ \A i \in 1 .. Len(p) : p[i] = q[i]

\* C15: the queue never holds more than 10 entries; every read attempt ends
\* with its entry sent or, the queue having stayed full, dropped, after which the
\* producer sleeps until its next cycle; what the consumer received is a
\* prefix of what was sent, in order and without duplicates, and the rest is
\* in the queue
C15_QueueDiscipline ==
    /\ Len(queue) <= 10
    /\ Len(sentLog) + plog.drops =
          IF prodPc \in {"readWake", "send", "sendBlocked"} THEN attempts - 1
          ELSE attempts
    /\ \A i \in 1 .. Len(sentLog) : \A j \in 1 .. Len(sentLog) :
          i < j => sentLog[i] < sentLog[j]
    /\ IsPrefix(recvLog, sentLog)
    /\ qState = "live" => sentLog = recvLog \o QueueIds
    /\ plog.drops > 0 => Len(sentLog) >= 10

\* C15 witness: an entry was dropped with the queue full, the producer sleeps
\* and the consumer has since received entries
C15_Witness ==
    /\ plog.drops = 1
    /\ prodPc = "sleep"
    /\ Len(recvLog) = 2
    /\ Len(sentLog) = 10

\* C19: the quit flag starts false and is set only by the producer after a
\* failed handle creation or by app_main after a failed task creation; once
\* true it stays true; a task that has left its loop left it with the flag
\* true; and when handle creation and both task creations have succeeded the
\* flag is false, both tasks are in their loops and the handle is live
C19_QuitLatch ==
    /\ [](/\ gQUIT <=> plog.quitBy # {}
          /\ plog.quitBy \subseteq {"producer", "startup"}
          /\ "producer" \in plog.quitBy => CreationFailed
          /\ "startup" \in plog.quitBy =>
                (plog.tasks # {"reader", "writer"} /\ mainPc \in {"quitDelay", "done"})
          /\ ProducerExited => gQUIT
          /\ ConsumerExited => gQUIT
          /\ (plog.initRet = "DHT_OK" /\ plog.tasks = {"reader", "writer"}) =>
                /\ ~gQUIT
                /\ ~ProducerExited /\ ~ConsumerExited
                /\ refs[1] \in LiveHandles /\ Cardinality(LiveTokens) = 1)
    /\ [][gQUIT => gQUIT']_vars

\* C19 witness: everything was created and the producer has made all its
\* attempts with the flag still false
C19_Witness ==
    /\ plog.initRet = "DHT_OK" /\ plog.tasks = {"reader", "writer"}
    /\ attempts = MaxAttempts
    /\ Len(recvLog) > 0
    /\ ~gQUIT

\* C20: between driving the line low and the end of the read the producer
\* never yields: no step of the consumer falls into a read attempt
C20_ReadNeverYields ==
    [][(prodPc = "readWake" /\ consPc # "absent") => consPc' = consPc]_vars

\* C21: the queue is never used after it is deleted: once app_main has called
\* vQueueDelete, no task is found at a send or receive on the dangling handle
UsesQueue ==
    \/ prodPc \in {"send", "sendBlocked"}
    \/ consPc \in {"receive", "recvBlocked"}
C21_NoUseAfterDelete == ~(qState = "deleted" /\ UsesQueue)

(***************************************************************************)
(* Claims about the handle lifecycle, checked under SpecLife.              *)
(***************************************************************************)
\* C8: after any sequence of create and destroy calls the number of live
\* identity tokens equals the number of live handles, and a destroy that
\* returned DHT_OK has cleared the caller's reference
C8_FreedAsPair ==
    ub = "none" =>
        /\ Cardinality(LiveTokens) = Cardinality(LiveHandles)
        /\ (last.op = "dhtCleanup" /\ last.ret = "DHT_OK") => last.refNull

\* C9: dhtCleanup called with a null reference, a reference to null, or a
\* handle whose token does not record the handle's own address returns
\* DHT_INVALID_INPUT, frees nothing and changes no reference and no block
C9_DestroyRefuses ==
    /\ (last.op = "dhtCleanup" /\ last.refused) =>
          last.ret = "DHT_INVALID_INPUT" /\ ~last.changed
    /\ ub = "none" =>
          \A ppDht \in {NULL} \cup RefIds :
             (CleanupDefined(HeapState, ppDht) /\ FailsIdentity(HeapState, ppDht)) =>
                LET r == dhtCleanup(HeapState, ppDht)
                IN  r.ret = "DHT_INVALID_INPUT" /\ ~Changed(HeapState, r)

\* C9 witness: dhtCleanup has been called on a copy of a handle, whose token
\* records the original's address, and has refused it
C9_Witness ==
    /\ last.op = "dhtCleanup" /\ last.refused
    /\ last.viaCopy
    /\ mem[mem[StackAddr].opaque].pDhtAddress \in LiveHandles
    /\ last.ret = "DHT_INVALID_INPUT"

\* C10: dhtInitialize returns DHT_INVALID_INPUT for an invalid pin, a null or
\* empty name or a null output reference, DHT_MALLOC_FAILED when either
\* allocation fails, DHT_FAILED_TO_SET_PIN_MODE when pull-up fails; on each
\* failure no allocation of the call stays live and the output reference is
\* not written; on success two allocations are live, the token records the
\* returned handle's address and the handle's pin is the requested pin
C10_CreateAtomic ==
    /\ (last.op = "dhtInitialize" /\ last.ret # "DHT_OK") => ~last.changed
    /\ ub = "none" =>
        \A pinId \in Pins, name \in NameLens, ppDht \in {NULL} \cup RefIds :
        \A env \in EnvChoices(allocated, pinId, name, ppDht) :
           LET pvtA == env[1]
               dhtA == env[2]
               pullOk == env[3]
               r == dhtInitialize(HeapState, pinId, name, ppDht, pvtA, dhtA, pullOk)
               ok == GPIO_IS_VALID_GPIO(pinId) /\ name # -1 /\ name # 0 /\ ppDht # NULL
           IN  /\ ~ok => r.ret = "DHT_INVALID_INPUT"
               /\ (ok /\ (pvtA = NULL \/ dhtA = NULL)) => r.ret = "DHT_MALLOC_FAILED"
               /\ (ok /\ pvtA # NULL /\ dhtA # NULL /\ ~pullOk) =>
                     r.ret = "DHT_FAILED_TO_SET_PIN_MODE"
               /\ (ok /\ pvtA # NULL /\ dhtA # NULL /\ pullOk) => r.ret = "DHT_OK"
               /\ r.ret # "DHT_OK" => ~Changed(HeapState, r)
               /\ r.ret = "DHT_OK" =>
                     LET h == r.refs[ppDht]
                     IN  /\ Cardinality(r.allocated \ allocated) = 2
                         /\ h \in r.allocated \ allocated
                         /\ r.mem[h].t = "dht"
                         /\ r.mem[h].opaque \in r.allocated \ allocated
                         /\ r.mem[r.mem[h].opaque] = NewPvt(h)
                         /\ r.mem[h].pin = pinId

\* C10 witness: a create has failed at pull-up, after both allocations were
\* made, with an earlier allocation still live
C10_Witness ==
    /\ last.op = "dhtInitialize"
    /\ last.ret = "DHT_FAILED_TO_SET_PIN_MODE"
    /\ allocated # {}

\* C16: no block is ever freed twice, and a destroy through a pointer to a
\* handle that was already destroyed returns DHT_INVALID_INPUT and frees
\* nothing
C16_NoDoubleDestroy ==
    /\ ub # "freed_again"
    /\ ub # "none" => (last.ret = "DHT_INVALID_INPUT" /\ ~last.changed)

====
